---- MODULE Spec2Model ----
(***************************************************************************)
(* A model of the generational engine of kometbomb/genetic-algorithm,      *)
(* class GeneticAlgorithm of src/src/GeneticAlgorithm.ts (the pairwise      *)
(* tournament engine).                                                      *)
(*                                                                          *)
(* The engine's state is its population (an array of {genotype, fitness})  *)
(* and its configuration.  Every public method is asynchronous: it runs    *)
(* synchronously up to the await of getRankedPopulation and resumes when    *)
(* the promise settles, so each method is two actions: its start (up to    *)
(* the fitnessFunction call) and its resumption (from the returned fitness *)
(* array on).  The caller's callbacks are opaque: mutationFunction and      *)
(* crossoverFunction may return any genotype, fitnessFunction any array,   *)
(* doesAbeatB any boolean, Math.random any value of [0,1).                  *)
(*                                                                          *)
(* Numbers of [0,1] (probabilities, random draws) are in hundredths.       *)
(***************************************************************************)
EXTENDS Integers, Sequences, FiniteSets, Bags, TLC

\* ------------------------------------------------------------------ bounds

\* The largest populationSize a configuration asks for, and the longest
\* initial population.
MaxPopulationSize == 4
\* Genotypes are the numbers 0..MaxGenotype.
MaxGenotype == 0
\* fitnessFunction returns numbers of 0..MaxFitness (or null).
MaxFitness == 1

Genotypes == 0 .. MaxGenotype
FitnessValues == 0 .. MaxFitness

\* ------------------------------------------------------------------ values

\* null / undefined: an optional value is <<>> when absent and <<v>> when it
\* is the number v.
Null == <<>>
Number(v) == <<v>>

\* typeof f === "number"
IsNumber(f) == f # Null

\* The number a relational operator sees: null converts to 0.
ToNumber(f) == IF f = Null THEN 0 ELSE f[1]

\* What one element of the array fitnessFunction resolves to can be: the tests
\* use functions returning numbers and one returning null.
FitnessReturns == {Null} \cup {Number(v) : v \in FitnessValues}

\* Values Math.random() returns, in hundredths: 0 is included, 1 excluded.
RandomDraws == {0, 50, 99}

\* Math.floor(Math.random() * n), as a 1-based index; for n = 0 the code
\* computes index 0 of an empty array.
RandomIndices(n) == 1 .. n

\* A population entry.  evaluated is history: whether this entry has been
\* through fitnessFunction (its result merged) since it was created.
Entry(g, f, e) == [genotype |-> g, fitness |-> f, evaluated |-> e]

\* A new entry that is given a fitness as it is created.
UnscoredWithFitness(g) == Entry(g, Number(0), FALSE)

\* { genotype, fitness: null }
Unscored(g) == Entry(g, Null, FALSE)

\* ----------------------------------------------------------- configuration

\* crossoverProbability when the configuration leaves it undefined (0.5).
DefaultCrossoverProbability == 50

\* A configuration but for its populationSize: crossoverFunction and
\* doesAbeatB say whether the optional callback is defined.
Options(probability, recalculate, crossover, comparator) ==
  [crossoverProbability |-> probability,
   recalculateFitnessBeforeEachGeneration |-> recalculate,
   crossoverFunction |-> crossover,
   doesAbeatB |-> comparator]

\* The options a caller configures: the configurations of the tests
\* (GeneticAlgorithm.test.ts lines 6-10, 47-52 with 68 and 78, 88-94 with 106
\* and 118), and crossover probabilities 0 and 1 under the default comparison,
\* with and without a crossoverFunction.
ConfigOptions ==
  {Options(Null, FALSE, FALSE, FALSE),
   Options(Number(0), FALSE, FALSE, FALSE),
   Options(Number(100), FALSE, FALSE, FALSE),
   Options(Null, FALSE, TRUE, FALSE),
   Options(Null, TRUE, TRUE, FALSE),
   Options(Number(0), FALSE, TRUE, TRUE),
   Options(Number(100), FALSE, TRUE, TRUE),
   Options(Number(0), FALSE, TRUE, FALSE),
   Options(Number(100), FALSE, TRUE, FALSE)}

\* The configurations a caller passes to the constructor or to evolve().
\* populationSize 0 is the invalid one.
ConfigInputs ==
  {[populationSize |-> size,
    crossoverProbability |-> o.crossoverProbability,
    recalculateFitnessBeforeEachGeneration |-> o.recalculateFitnessBeforeEachGeneration,
    crossoverFunction |-> o.crossoverFunction,
    doesAbeatB |-> o.doesAbeatB] :
     size \in 0 .. MaxPopulationSize, o \in ConfigOptions}

\* The initial populations a caller passes to the constructor.
InitialPopulations ==
  UNION {[1 .. n -> Genotypes] : n \in 0 .. MaxPopulationSize}

\* setConfig throws "populationSize has to be greater than zero."
setConfigThrows(config) == config.populationSize < 1

\* setConfig that stores the configuration before it validates it.
setConfigStoringFirst(current, config) == config

\* this.config after setConfig(config): the throw comes before the assignment.
setConfig(current, config) ==
  IF setConfigThrows(config) THEN current ELSE config

\* The constructor that accepts an empty initial population.
constructorAcceptsEmpty(initialPopulation) == FALSE

\* The constructor throws "Initial population has to be given."
constructorThrows(initialPopulation) == Len(initialPopulation) < 1

\* const crossoverProbability = ... !== undefined ? ... : 0.5
crossoverProbability(config) ==
  IF config.crossoverProbability # Null
  THEN config.crossoverProbability[1]
  ELSE DefaultCrossoverProbability

\* ---------------------------------------------------------------- callbacks

\* What config.mutationFunction(genotype) may return.
mutate(genotype) == Genotypes

\* What config.crossoverFunction(phenotype, mate) may return.
crossoverFunction(phenotype, mate) == Genotypes

\* ------------------------------------------------------ getRankedPopulation

\* NeedsFitness without the cache: every entry is ranked anew.
NeedsFitnessIgnoringCache(ranked, recalculateFitness) == TRUE

\* The filter of hasNoFitness.
NeedsFitness(ranked, recalculateFitness) ==
  ~IsNumber(ranked.fitness) \/ recalculateFitness

\* The filter of hasFitness.
HasFitness(ranked, recalculateFitness) ==
  IsNumber(ranked.fitness) /\ ~recalculateFitness

\* hasNoFitness that misses the first entry in need of a fitness.
hasNoFitnessButFirst(population, recalculateFitness) ==
  LET all == SelectSeq(population, LAMBDA ranked : NeedsFitness(ranked, recalculateFitness))
  IN IF all = <<>> THEN <<>> ELSE Tail(all)

hasNoFitnessOf(population, recalculateFitness) ==
  SelectSeq(population, LAMBDA ranked : NeedsFitness(ranked, recalculateFitness))

hasFitnessOf(population, recalculateFitness) ==
  SelectSeq(population, LAMBDA ranked : HasFitness(ranked, recalculateFitness))

\* The merge that writes the first fitness only.
rankedPopulationScoringFirst(hasNoFitness, fitness, hasFitness) ==
  [index \in 1 .. Len(hasNoFitness) |->
     IF index = 1
     THEN Entry(hasNoFitness[index].genotype, fitness[index], TRUE)
     ELSE hasNoFitness[index]] \o hasFitness

\* The merge that stores the first returned value with every submitted entry.
rankedPopulationStoringFirstValue(hasNoFitness, fitness, hasFitness) ==
  [index \in 1 .. Len(hasNoFitness) |->
     Entry(hasNoFitness[index].genotype, fitness[1], TRUE)] \o hasFitness

\* hasNoFitness.map((ranked, index) => ({ genotype, fitness: fitness[index] }))
\*   .concat(hasFitness)
rankedPopulationOf(hasNoFitness, fitness, hasFitness) ==
  [index \in 1 .. Len(hasNoFitness) |->
     Entry(hasNoFitness[index].genotype, fitness[index], TRUE)] \o hasFitness

\* ------------------------------------------------------------------ populate

\* populate throws a TypeError when it has to add to an empty population:
\* this.population[0] is undefined.
populateThrows(population, config) ==
  Len(population) = 0 /\ Len(population) < config.populationSize

RECURSIVE populateLoop(_, _, _)
populateLoop(populations, size, populationSize) ==
  IF \A population \in populations : Len(population) >= populationSize
  THEN populations
  ELSE populateLoop(
         UNION {{Append(population, Unscored(genotype)) :
                   genotype \in UNION {mutate(population[index].genotype) :
                                         index \in RandomIndices(size)}} :
                population \in populations},
         size, populationSize)

\* The populations populate() can leave, for a population it does not throw on.
populate(population, config) ==
  populateLoop({population}, Len(population), config.populationSize)

\* ---------------------------------------------------------- shufflePopulation

\* Swap that overwrites one side and loses the entry that was there.
SwapLosingEntry(population, index, other) ==
  [population EXCEPT ![index] = population[other]]

Swap(population, index, other) ==
  [population EXCEPT ![index] = population[other], ![other] = population[index]]

RECURSIVE shuffleLoop(_, _, _)
shuffleLoop(populations, index, length) ==
  IF index > length
  THEN populations
  ELSE shuffleLoop(
         UNION {{Swap(population, index, other) : other \in RandomIndices(length)} :
                population \in populations},
         index + 1, length)

\* The orders shufflePopulation() can leave.
shufflePopulation(population) ==
  shuffleLoop({population}, 1, Len(population))

\* -------------------------------------------------------------------- compete

\* defaultDoesABeatB that lets a tie win.
defaultDoesABeatBOnTie(a, b) == ToNumber(a.fitness) >= ToNumber(b.fitness)

\* (a, b) => a.fitness > b.fitness
defaultDoesABeatB(a, b) == ToNumber(a.fitness) > ToNumber(b.fitness)

\* const compare = this.config.doesAbeatB || GeneticAlgorithm.defaultDoesABeatB
\* The results compare(phenotype, competitor) can have, with the predicate
\* that gave each: the caller's predicate may return either.
compare(config, phenotype, competitor) ==
  IF config.doesAbeatB
  THEN {[by |-> "doesAbeatB", beat |-> result] : result \in BOOLEAN}
  ELSE {[by |-> "default", beat |-> defaultDoesABeatB(phenotype, competitor)]}

\* choosesMutation that draws also when there is no crossoverFunction.
choosesMutationOnDrawOnly(config, random) ==
  random > crossoverProbability(config)

\* choosesMutation with the comparison of the draw turned around.
choosesMutationBelow(config, random) ==
  ~config.crossoverFunction \/ random < crossoverProbability(config)

\* !this.config.crossoverFunction || Math.random() > crossoverProbability
choosesMutation(config, random) ==
  ~config.crossoverFunction \/ random > crossoverProbability(config)

\* The values of Math.random() the test of a winning phenotype can see: the
\* || does not draw when no crossoverFunction is configured (Null).
draws(config) ==
  IF config.crossoverFunction THEN {Number(r) : r \in RandomDraws} ELSE {Null}

\* The offspring a winning phenotype can be given, with how each was made and
\* the random value that decided it.  crossover() mates with a random entry of
\* this.population.
offspring(config, population, phenotype) ==
  UNION {IF choosesMutation(config, ToNumber(random))
         THEN {[entry |-> Unscored(genotype), by |-> "mutation", random |-> random] :
                 genotype \in mutate(phenotype.genotype)}
         ELSE {[entry |-> Unscored(genotype), by |-> "crossover", random |-> random] :
                 genotype \in UNION {crossoverFunction(phenotype.genotype,
                                                       population[mate].genotype) :
                                       mate \in RandomIndices(Len(population))}} :
         random \in draws(config)}

\* The pair competition that replaces the competitor whoever wins.
pairOutcomesReplacingAlways(config, population, phenotype, competitor) ==
  UNION {{[entry |-> o.entry,
           log |-> [phenotype |-> phenotype, competitor |-> competitor,
                    by |-> c.by, beat |-> c.beat,
                    offspring |-> o.by, random |-> o.random]] :
            o \in offspring(config, population, phenotype)} :
         c \in compare(config, phenotype, competitor)}

\* What one pair's competition can push after the phenotype, with the record
\* of the competition: the two entries, the predicate consulted, its result,
\* how the competitor's replacement was made and on which random value.
pairOutcomes(config, population, phenotype, competitor) ==
  UNION {IF c.beat
         THEN {[entry |-> o.entry,
                log |-> [phenotype |-> phenotype, competitor |-> competitor,
                         by |-> c.by, beat |-> TRUE,
                         offspring |-> o.by, random |-> o.random]] :
                 o \in offspring(config, population, phenotype)}
         ELSE {[entry |-> competitor,
                log |-> [phenotype |-> phenotype, competitor |-> competitor,
                         by |-> c.by, beat |-> FALSE,
                         offspring |-> "none", random |-> Null]]} :
         c \in compare(config, phenotype, competitor)}

\* The loop of compete from (1-based) index p on: p < length is the code's
\* p < rankedPopulation.length - 1 for the 0-based p.
RECURSIVE competeLoop(_, _, _, _, _)
competeLoop(config, population, rankedPopulation, p, generations) ==
  IF ~(p < Len(rankedPopulation))
  THEN generations
  ELSE competeLoop(
         config, population, rankedPopulation, p + 2,
         UNION {{[nextGeneration |-> g.nextGeneration \o <<rankedPopulation[p], o.entry>>,
                  pairs |-> Append(g.pairs, o.log)] :
                   o \in pairOutcomes(config, population,
                                      rankedPopulation[p], rankedPopulation[p + 1])} :
                g \in generations})

\* compete that carries an unpaired last entry over.
competeKeepingUnpaired(config, population, rankedPopulation) ==
  {IF Len(rankedPopulation) % 2 = 1
   THEN [g EXCEPT !.nextGeneration = Append(@, rankedPopulation[Len(rankedPopulation)])]
   ELSE g :
     g \in competeLoop(config, population, rankedPopulation, 1,
                       {[nextGeneration |-> <<>>, pairs |-> <<>>]})}

\* The next generations compete(rankedPopulation) can assign to
\* this.population, each with the record of its pair competitions.
compete(config, population, rankedPopulation) ==
  competeLoop(config, population, rankedPopulation, 1,
              {[nextGeneration |-> <<>>, pairs |-> <<>>]})

\* ----------------------------------------------------------------- bestRanked

\* Array.prototype.sort with (a, b) => b.fitness - a.fitness: stable,
\* descending.  The entry goes after every entry that does not sort after it.
RECURSIVE insertDescending(_, _)
insertDescending(sorted, ranked) ==
  IF sorted = <<>>
  THEN <<ranked>>
  ELSE IF Head(sorted).fitness[1] - ranked.fitness[1] < 0
       THEN <<ranked>> \o sorted
       ELSE <<Head(sorted)>> \o insertDescending(Tail(sorted), ranked)

RECURSIVE sortDescending(_)
sortDescending(ranked) ==
  IF ranked = <<>>
  THEN <<>>
  ELSE insertDescending(sortDescending(SubSeq(ranked, 1, Len(ranked) - 1)),
                        ranked[Len(ranked)])

\* The sum the reduce of meanFitness computes.
RECURSIVE sumFitness(_)
sumFitness(withFitness) ==
  IF withFitness = <<>>
  THEN 0
  ELSE Head(withFitness).fitness[1] + sumFitness(Tail(withFitness))

\* { genotype, fitness } as a caller sees it.
RankedGenotype(ranked) == [genotype |-> ranked.genotype, fitness |-> ranked.fitness[1]]

\* ------------------------------------------------------------------- state

VARIABLES
  engine,      \* "Ready", or the error the constructor threw
  population,  \* this.population
  config,      \* this.config
  call,        \* the method call suspended at its await, op "none" when none is
  last,        \* the call that has settled and that its caller has yet to
               \* take, op "none" when there is none
  second       \* a call started while call was suspended, and suspended at
               \* its own await, op "none" when there is none

vars == <<engine, population, config, call, last, second>>

\* An optional argument that is given.
Given(argument) == <<argument>>

\* The entries of a population as a bag.
RECURSIVE BagOf(_)
BagOf(entries) ==
  IF entries = <<>>
  THEN EmptyBag
  ELSE SetToBag({Head(entries)}) (+) BagOf(Tail(entries))

\* How many entries hold a number as fitness.
Scored(entries) == Len(SelectSeq(entries, LAMBDA ranked : IsNumber(ranked.fitness)))

NoCall ==
  [op |-> "none", hasNoFitness |-> <<>>, hasFitness |-> <<>>,
   recalculateFitness |-> FALSE, override |-> FALSE,
   sizeBefore |-> 0, scoredBefore |-> 0, before |-> EmptyBag,
   populateMutations |-> 0, competed |-> Null]

\* The record of a settled call, until the caller's await takes it: how the
\* call started (whether it was given a configuration, how many entries there
\* were and how many held a number, the bag of those entries, the number of
\* mutationFunction calls populate made, and the number of genotypes it
\* passed to fitnessFunction, Null when it passed none), how it settled, the
\* record of compete's pair competitions, and what the call returned.  Of
\* a call whose rank call succeeded it also holds the array fitnessFunction
\* resolved to and, for evolve, the rankedPopulation compete was given (see
\* Ranked).
Settled(c, outcome, pairs, value) ==
  [op |-> c.op, outcome |-> outcome, pairs |-> pairs, value |-> value,
   returned |-> <<>>, ranked |-> <<>>,
   override |-> c.override, recalculateFitness |-> c.recalculateFitness,
   sizeBefore |-> c.sizeBefore, scoredBefore |-> c.scoredBefore,
   before |-> c.before, populateMutations |-> c.populateMutations,
   submitted |-> IF Len(c.hasNoFitness) = 0 THEN Null ELSE Number(Len(c.hasNoFitness))]

\* The record of a settled call whose rank call succeeded: fitness is what
\* fitnessFunction resolved to, rankedPopulation what evolve passed on.
Ranked(settled, fitness, rankedPopulation) ==
  [settled EXCEPT !.returned = fitness, !.ranked = rankedPopulation]

\* No settled call is waiting for the caller.
Nothing == Settled(NoCall, "none", <<>>, Null)

\* The call as it starts: what getRankedPopulation(recalculateFitness)
\* computes before its await, on the population as it is then (current); old
\* is the population the call found, populated what populate() made of it.
Started(op, override, old, populated, current, recalculateFitness) ==
  [op |-> op,
   hasNoFitness |-> hasNoFitnessOf(current, recalculateFitness),
   hasFitness |-> hasFitnessOf(current, recalculateFitness),
   recalculateFitness |-> recalculateFitness, override |-> override,
   sizeBefore |-> Len(old), scoredBefore |-> Scored(old), before |-> BagOf(old),
   populateMutations |-> Len(populated) - Len(old), competed |-> Null]

\* A call suspended at its fitnessFunction call, after the compete of an
\* evolve() that was suspended at its own (hasNoFitness) assigned
\* nextGeneration to this.population: competed is history, the last such
\* nextGeneration.  Any other call is as it was.
Overtaken(suspended, hasNoFitness, nextGeneration) ==
  IF Len(suspended.hasNoFitness) > 0 /\ Len(hasNoFitness) > 0
  THEN [suspended EXCEPT !.competed = Given(nextGeneration)]
  ELSE suspended

\* --------------------------------------------------------------- constructor

\* new GeneticAlgorithm(config, initialPopulation): the initial states are
\* its results.  When it throws there is no engine, and no method can be
\* called; config then holds the argument.  The settled call records the
\* initialPopulation it was given.
Init ==
  \E c \in ConfigInputs, initialPopulation \in InitialPopulations :
    /\ engine = IF constructorThrows(initialPopulation) THEN "EmptyPopulation"
                ELSE IF setConfigThrows(c) THEN "InvalidConfig"
                ELSE "Ready"
    /\ population = [index \in 1 .. Len(initialPopulation) |->
                       Unscored(initialPopulation[index])]
    /\ config = c
    /\ call = NoCall
    /\ second = NoCall
    /\ last = Settled([NoCall EXCEPT !.op = "constructor"],
                      IF engine = "Ready" THEN "resolved" ELSE engine,
                      <<>>, Given(initialPopulation))

\* --------------------------------------------------------- fitnessFunction

\* How the await of getRankedPopulation can settle: fitnessFunction is not
\* called when hasNoFitness is empty; otherwise its promise rejects, or
\* resolves to an array of the right length with any contents, or to one
\* of another length.
fitnessOutcomes(hasNoFitness) ==
  IF Len(hasNoFitness) = 0
  THEN {[kind |-> "notCalled", fitness |-> <<>>]}
  ELSE {[kind |-> "rejected", fitness |-> <<>>]}
       \cup {[kind |-> "returned", fitness |-> fitness] :
               fitness \in [1 .. Len(hasNoFitness) -> FitnessReturns]}
       \cup {[kind |-> "returned", fitness |-> [index \in 1 .. n |-> Number(0)]] :
               n \in (0 .. Len(hasNoFitness) + 1) \ {Len(hasNoFitness)}}

\* if (fitness.length !== hasNoFitness.length) throw
countMismatch(fitness, hasNoFitness) == Len(fitness) # Len(hasNoFitness)

\* What getRankedPopulation returns on success.
rankedOf(c, o) ==
  IF o.kind = "returned"
  THEN rankedPopulationOf(c.hasNoFitness, o.fitness, c.hasFitness)
  ELSE c.hasFitness

\* this.population after a successful getRankedPopulation.
mergedOf(c, o, current) ==
  IF o.kind = "returned"
  THEN rankedPopulationOf(c.hasNoFitness, o.fitness, c.hasFitness)
  ELSE current

\* -------------------------------------------------------------------- evolve

\* evolveRecalculates that ignores the configuration, as the queries do.
evolveNeverRecalculates(c) == FALSE

\* !!this.config.recalculateFitnessBeforeEachGeneration
evolveRecalculates(c) == c.recalculateFitnessBeforeEachGeneration

\* evolve(config?) up to its await: setConfig, populate, shufflePopulation
\* and the synchronous part of getRankedPopulation.
EvolveCall ==
  /\ engine = "Ready"
  /\ call.op = "none"
  /\ last.op = "none"
  /\ \E argument \in {Null} \cup {Given(c) : c \in ConfigInputs} :
       LET given == argument # Null
           next == IF given THEN argument[1] ELSE config
           this == [NoCall EXCEPT !.op = "evolve", !.override = given,
                                  !.sizeBefore = Len(population),
                                  !.scoredBefore = Scored(population),
                                  !.before = BagOf(population)]
       IN IF given /\ setConfigThrows(argument[1])
          THEN /\ config' = setConfig(config, argument[1])
               /\ last' = Settled(this, "InvalidConfig", <<>>, Null)
               /\ UNCHANGED <<engine, second, population, call>>
          ELSE IF populateThrows(population, next)
          THEN /\ config' = next
               /\ last' = Settled(this, "TypeError", <<>>, Null)
               /\ UNCHANGED <<engine, second, population, call>>
          ELSE \E populated \in populate(population, next) :
               \E shuffled \in shufflePopulation(populated) :
                 /\ config' = next
                 /\ population' = shuffled
                 /\ call' = Started("evolve", given, population, populated, shuffled,
                                    evolveRecalculates(next))
                 /\ UNCHANGED <<engine, second, last>>

\* evolve from its await on: the rest of getRankedPopulation, then compete.
EvolveResume ==
  /\ call.op = "evolve"
  /\ last.op = "none"
  /\ \E o \in fitnessOutcomes(call.hasNoFitness) :
       IF o.kind = "rejected"
       THEN /\ last' = Settled(call, "fitnessFunctionRejected", <<>>, Null)
            /\ UNCHANGED <<population, second>>
       ELSE IF o.kind = "returned" /\ countMismatch(o.fitness, call.hasNoFitness)
       THEN /\ last' = Settled(call, "FitnessCountMismatch", <<>>, Null)
            /\ UNCHANGED <<population, second>>
       ELSE \E g \in compete(config, mergedOf(call, o, population), rankedOf(call, o)) :
              /\ population' = g.nextGeneration
              /\ last' = Ranked(Settled(call, "resolved", g.pairs, Null),
                                o.fitness, rankedOf(call, o))
              /\ second' = Overtaken(second, call.hasNoFitness, g.nextGeneration)
  /\ call' = NoCall
  /\ UNCHANGED <<engine, config>>

\* ------------------------------------------- bestRanked, best, bestScore, meanFitness

Queries == {"bestRanked", "best", "bestScore", "meanFitness"}

\* A query that has every entry scored anew.
queryAlwaysRecalculates == TRUE

\* getRankedPopulation(): recalculateFitness = false by default.
queryRecalculates == FALSE

\* A query up to its await.
QueryCall ==
  /\ engine = "Ready"
  /\ call.op = "none"
  /\ last.op = "none"
  /\ \E op \in Queries :
       call' = Started(op, FALSE, population, population, population, queryRecalculates)
  /\ UNCHANGED <<engine, second, population, config, last>>

\* The filter of bestRanked: typeof ranked.fitness === "number".
bestRankedFilter(ranked) == SelectSeq(ranked, LAMBDA r : IsNumber(r.fitness))

\* The filter of meanFitness: ranked.fitness !== null.
meanFitnessFilter(ranked) == SelectSeq(ranked, LAMBDA r : r.fitness # Null)

\* bestRanked that returns the first scored entry, without sorting.
bestRankedOfUnsorted(ranked) == ranked[1]

\* What bestRanked returns for a non-empty filtered array.
bestRankedOf(ranked) == sortDescending(ranked)[1]

\* What the query op returns: the mean is the pair <<sum, count>> of the
\* division (0 / 0 is NaN).
queryValue(op, ranked) ==
  CASE op = "bestRanked" -> RankedGenotype(bestRankedOf(bestRankedFilter(ranked)))
    [] op = "best" -> bestRankedOf(bestRankedFilter(ranked)).genotype
    [] op = "bestScore" -> bestRankedOf(bestRankedFilter(ranked)).fitness[1]
    [] op = "meanFitness" -> <<sumFitness(meanFitnessFilter(ranked)),
                               Len(meanFitnessFilter(ranked))>>

\* bestRankedThrows that also throws when a single entry holds a number.
bestRankedThrowsOnOne(op, ranked) ==
  op # "meanFitness" /\ Len(bestRankedFilter(ranked)) <= 1

\* if (ranked.length === 0) throw, in bestRanked
bestRankedThrows(op, ranked) ==
  op # "meanFitness" /\ Len(bestRankedFilter(ranked)) = 0

\* A query from its await on.
QueryResume ==
  /\ call.op \in Queries
  /\ last.op = "none"
  /\ \E o \in fitnessOutcomes(call.hasNoFitness) :
       IF o.kind = "rejected"
       THEN /\ last' = Settled(call, "fitnessFunctionRejected", <<>>, Null)
            /\ UNCHANGED population
       ELSE IF o.kind = "returned" /\ countMismatch(o.fitness, call.hasNoFitness)
       THEN /\ last' = Settled(call, "FitnessCountMismatch", <<>>, Null)
            /\ UNCHANGED population
       ELSE /\ population' = mergedOf(call, o, population)
            /\ last' = Ranked(IF bestRankedThrows(call.op, rankedOf(call, o))
                              THEN Settled(call, "NoScoredGenotypes", <<>>, Null)
                              ELSE Settled(call, "resolved", <<>>,
                                           queryValue(call.op, rankedOf(call, o))),
                              o.fitness, <<>>)
  /\ call' = NoCall
  /\ UNCHANGED <<engine, second, config>>

\* ------------------------------------------------------------- getPopulation

\* this.population.map(ranked => ranked.genotype)
genotypesOf(entries) == [index \in 1 .. Len(entries) |-> entries[index].genotype]

\* getPopulation(): synchronous, it returns at once.
GetPopulation ==
  /\ engine = "Ready"
  /\ call.op = "none"
  /\ last.op = "none"
  /\ last' = Settled([NoCall EXCEPT !.op = "getPopulation",
                                    !.sizeBefore = Len(population),
                                    !.scoredBefore = Scored(population),
                                    !.before = BagOf(population)],
                     "resolved", <<>>, Given(genotypesOf(population)))
  /\ UNCHANGED <<engine, second, population, config, call>>

\* --------------------------------------------------------------- the caller

\* The caller takes the settled call: its await returns or throws (for the
\* constructor, the new expression returns the engine).  The continuation of
\* a settled call runs before another call settles or is made, which is why
\* the other actions wait for it.
Await ==
  /\ engine = "Ready"
  /\ last.op # "none"
  /\ last' = Nothing
  /\ UNCHANGED <<engine, second, population, config, call>>

\* ------------------------------------------------------------ specification

\* The caller awaits each call before it makes the next.
Next ==
  EvolveCall \/ EvolveResume \/ QueryCall \/ QueryResume \/ GetPopulation \/ Await

Spec == Init /\ [][Next]_vars

\* ------------------------------------------------- the roulette engine
\* The engine of src/unnamed/part_000: the same class with another setConfig,
\* compete and evolve.  Its constructor, getRankedPopulation, populate and
\* queries read as those above.

\* setConfig throws "populationSize has to be greater than one."
rouletteSetConfigThrows(c) == c.populationSize < 2

\* rankedPopulation.sort((a, b) => b.fitness - a.fitness): stable, descending;
\* a fitness that is null counts as 0 in the subtraction.
RECURSIVE rouletteInsert(_, _)
rouletteInsert(sorted, ranked) ==
  IF sorted = <<>>
  THEN <<ranked>>
  ELSE IF ToNumber(Head(sorted).fitness) - ToNumber(ranked.fitness) < 0
       THEN <<ranked>> \o sorted
       ELSE <<Head(sorted)>> \o rouletteInsert(Tail(sorted), ranked)

RECURSIVE rouletteSort(_)
rouletteSort(ranked) ==
  IF ranked = <<>>
  THEN <<>>
  ELSE rouletteInsert(rouletteSort(SubSeq(ranked, 1, Len(ranked) - 1)),
                      ranked[Len(ranked)])

\* The sum of the fitness of the first n entries.
RECURSIVE fitnessSum(_, _)
fitnessSum(ranked, n) ==
  IF n = 0 THEN 0 ELSE fitnessSum(ranked, n - 1) + ToNumber(ranked[n].fitness)

\* const total = rankedPopulation.reduce(...) || 1
total(ranked) ==
  IF fitnessSum(ranked, Len(ranked)) = 0 THEN 1 ELSE fitnessSum(ranked, Len(ranked))

\* genotype.accumulatedFitness >= r for the entry at index, r in hundredths:
\* accumulatedFitness is the sum of fitness / total up to the entry.
accumulatedReaches(ranked, index, r) ==
  100 * fitnessSum(ranked, index) >= r * total(ranked)

\* The entries getRandomParent() can return: the first whose accumulated
\* fitness reaches the draw, or, when none does, one at a random index.
getRandomParent(ranked) ==
  UNION {LET found == {index \in 1 .. Len(ranked) : accumulatedReaches(ranked, index, r)}
         IN IF found # {}
            THEN {ranked[CHOOSE index \in found : \A other \in found : index <= other]}
            ELSE {ranked[index] : index \in RandomIndices(Len(ranked))} :
         r \in RandomDraws}

\* this.config.crossoverFunction && Math.random() < crossoverProbability
rouletteChoosesCrossover(c, random) ==
  c.crossoverFunction /\ random < crossoverProbability(c)

\* What one turn of the while loop of compete can push.
rouletteTurn(c, ranked) ==
  UNION {UNION {IF rouletteChoosesCrossover(c, ToNumber(random))
                THEN UNION {{<<a, b, Unscored(genotype)>> :
                               genotype \in crossoverFunction(a.genotype, b.genotype)} :
                            b \in getRandomParent(ranked)}
                ELSE {<<a, Unscored(genotype)>> : genotype \in mutate(a.genotype)} :
                random \in draws(c)} :
         a \in getRandomParent(ranked)}

\* while (nextGeneration.length < this.config.populationSize)
RECURSIVE rouletteLoop(_, _, _)
rouletteLoop(c, ranked, generations) ==
  IF \A nextGeneration \in generations : Len(nextGeneration) >= c.populationSize
  THEN generations
  ELSE rouletteLoop(
         c, ranked,
         UNION {IF Len(nextGeneration) >= c.populationSize
                THEN {nextGeneration}
                ELSE {nextGeneration \o pushed : pushed \in rouletteTurn(c, ranked)} :
                nextGeneration \in generations})

\* The cull that keeps everything the loop pushed.
cullNothing(nextGeneration, populationSize) == nextGeneration

\* nextGeneration.slice(0, this.config.populationSize)
cull(nextGeneration, populationSize) ==
  SubSeq(nextGeneration, 1,
         IF Len(nextGeneration) < populationSize
         THEN Len(nextGeneration) ELSE populationSize)

\* compete throws a TypeError when it has to pick a parent of an empty
\* rankedPopulation: getRandomParent() returns undefined.
rouletteCompeteThrows(c, ranked) == Len(ranked) = 0 /\ 0 < c.populationSize

\* The populations compete can assign to this.population, from the array
\* getRankedPopulation returned.
rouletteCompete(c, ranked) ==
  {cull(nextGeneration, c.populationSize) :
     nextGeneration \in rouletteLoop(c, rouletteSort(ranked), {<<>>})}

\* new GeneticAlgorithm(config, initialPopulation) of the roulette engine.
RouletteInit ==
  \E c \in ConfigInputs, initialPopulation \in InitialPopulations :
    /\ engine = IF constructorThrows(initialPopulation) THEN "EmptyPopulation"
                ELSE IF rouletteSetConfigThrows(c) THEN "InvalidConfig"
                ELSE "Ready"
    /\ population = [index \in 1 .. Len(initialPopulation) |->
                       Unscored(initialPopulation[index])]
    /\ config = c
    /\ call = NoCall
    /\ second = NoCall
    /\ last = Settled([NoCall EXCEPT !.op = "constructor"],
                      IF engine = "Ready" THEN "resolved" ELSE engine,
                      <<>>, Given(initialPopulation))

\* evolve(config?) of the roulette engine up to its await: setConfig,
\* populate, and compete up to the await of getRankedPopulation.
RouletteEvolveCall ==
  /\ engine = "Ready"
  /\ call.op = "none"
  /\ last.op = "none"
  /\ \E argument \in {Null} \cup {Given(c) : c \in ConfigInputs} :
       LET given == argument # Null
           next == IF given THEN argument[1] ELSE config
           this == [NoCall EXCEPT !.op = "evolve", !.override = given,
                                  !.sizeBefore = Len(population),
                                  !.scoredBefore = Scored(population),
                                  !.before = BagOf(population)]
       IN IF given /\ rouletteSetConfigThrows(argument[1])
          THEN /\ last' = Settled(this, "InvalidConfig", <<>>, Null)
               /\ UNCHANGED <<engine, second, population, config, call>>
          ELSE IF populateThrows(population, next)
          THEN /\ config' = next
               /\ last' = Settled(this, "TypeError", <<>>, Null)
               /\ UNCHANGED <<engine, second, population, call>>
          ELSE \E populated \in populate(population, next) :
                 /\ config' = next
                 /\ population' = populated
                 /\ call' = Started("evolve", given, population, populated, populated,
                                    evolveRecalculates(next))
                 /\ UNCHANGED <<engine, second, last>>

\* evolve of the roulette engine from its await on: the rest of
\* getRankedPopulation, then the rest of compete.
RouletteEvolveResume ==
  /\ call.op = "evolve"
  /\ last.op = "none"
  /\ \E o \in fitnessOutcomes(call.hasNoFitness) :
       IF o.kind = "rejected"
       THEN /\ last' = Settled(call, "fitnessFunctionRejected", <<>>, Null)
            /\ UNCHANGED population
       ELSE IF o.kind = "returned" /\ countMismatch(o.fitness, call.hasNoFitness)
       THEN /\ last' = Settled(call, "FitnessCountMismatch", <<>>, Null)
            /\ UNCHANGED population
       ELSE IF rouletteCompeteThrows(config, rankedOf(call, o))
       THEN /\ population' = mergedOf(call, o, population)
            /\ last' = Settled(call, "TypeError", <<>>, Null)
       ELSE \E nextGeneration \in rouletteCompete(config, rankedOf(call, o)) :
              /\ population' = nextGeneration
              /\ last' = Settled(call, "resolved", <<>>, Null)
  /\ call' = NoCall
  /\ UNCHANGED <<engine, second, config>>

RouletteNext ==
  RouletteEvolveCall \/ RouletteEvolveResume \/ QueryCall \/ QueryResume \/ Await

RouletteSpec == RouletteInit /\ [][RouletteNext]_vars

\* ---------------------------------------------------- overlapping calls
\* A caller that does not await a call before it makes the next: a method
\* runs up to its await while another call is suspended at its own.

\* The largest populationSize and initial population of the engines that are
\* called this way here.
MaxOverlapSize == 2

\* new GeneticAlgorithm(config, initialPopulation), for those engines.
OverlapInit ==
  /\ Init
  /\ config.populationSize <= MaxOverlapSize
  /\ Len(population) <= MaxOverlapSize

\* evolve() without a configuration, up to its await, when no other call is
\* suspended in call.
OverlapEvolveCall ==
  /\ engine = "Ready"
  /\ call.op = "none"
  /\ last.op = "none"
  /\ LET this == [NoCall EXCEPT !.op = "evolve",
                                !.sizeBefore = Len(population),
                                !.scoredBefore = Scored(population),
                                !.before = BagOf(population)]
     IN IF populateThrows(population, config)
        THEN /\ last' = Settled(this, "TypeError", <<>>, Null)
             /\ UNCHANGED <<engine, second, population, config, call>>
        ELSE \E populated \in populate(population, config) :
             \E shuffled \in shufflePopulation(populated) :
               /\ population' = shuffled
               /\ call' = Started("evolve", FALSE, population, populated, shuffled,
                                  evolveRecalculates(config))
               /\ UNCHANGED <<engine, second, config, last>>

\* evolve() or a query called while call is suspended: it runs up to its own
\* await, on the population as the suspended call left it.
OverlappingCall ==
  /\ engine = "Ready"
  /\ call.op # "none"
  /\ second.op = "none"
  /\ last.op = "none"
  /\ \E op \in {"evolve"} \cup Queries :
       IF op # "evolve"
       THEN /\ second' = Started(op, FALSE, population, population, population,
                                 queryRecalculates)
            /\ UNCHANGED <<engine, population, config, call, last>>
       ELSE IF populateThrows(population, config)
       THEN /\ last' = Settled([NoCall EXCEPT !.op = "evolve",
                                              !.sizeBefore = Len(population),
                                              !.scoredBefore = Scored(population),
                                              !.before = BagOf(population)],
                               "TypeError", <<>>, Null)
            /\ UNCHANGED <<engine, second, population, config, call>>
       ELSE \E populated \in populate(population, config) :
            \E shuffled \in shufflePopulation(populated) :
              /\ population' = shuffled
              /\ second' = Started("evolve", FALSE, population, populated, shuffled,
                                   evolveRecalculates(config))
              /\ UNCHANGED <<engine, config, call, last>>

\* The call in second from its await on: the rest of getRankedPopulation,
\* on what it read before the await, then the rest of its method.
OverlappingResume ==
  /\ second.op # "none"
  /\ last.op = "none"
  /\ \E o \in fitnessOutcomes(second.hasNoFitness) :
       IF o.kind = "rejected"
       THEN /\ last' = Settled(second, "fitnessFunctionRejected", <<>>, Null)
            /\ UNCHANGED <<population, call>>
       ELSE IF o.kind = "returned" /\ countMismatch(o.fitness, second.hasNoFitness)
       THEN /\ last' = Settled(second, "FitnessCountMismatch", <<>>, Null)
            /\ UNCHANGED <<population, call>>
       ELSE IF second.op = "evolve"
       THEN \E g \in compete(config, mergedOf(second, o, population), rankedOf(second, o)) :
              /\ population' = g.nextGeneration
              /\ last' = Ranked(Settled(second, "resolved", g.pairs, Null),
                                o.fitness, rankedOf(second, o))
              /\ call' = Overtaken(call, second.hasNoFitness, g.nextGeneration)
       ELSE /\ population' = mergedOf(second, o, population)
            /\ UNCHANGED call
            /\ last' = Ranked(IF bestRankedThrows(second.op, rankedOf(second, o))
                              THEN Settled(second, "NoScoredGenotypes", <<>>, Null)
                              ELSE Settled(second, "resolved", <<>>,
                                           queryValue(second.op, rankedOf(second, o))),
                              o.fitness, <<>>)
  /\ second' = NoCall
  /\ UNCHANGED <<engine, config>>

\* The calls of a caller that may start a call while another is suspended.
OverlapNext ==
  \/ OverlapEvolveCall
  \/ EvolveResume
  \/ QueryCall
  \/ QueryResume
  \/ Await
  \/ OverlappingCall
  \/ OverlappingResume

OverlapSpec == OverlapInit /\ [][OverlapNext]_vars

\* ------------------------------------------- populations of two genotypes
\* The engine above, built on an initial population that holds a genotype
\* mutationFunction does not return, and advanced by evolve() without an
\* override: entries that differ by more than their fitness.

\* The largest populationSize and initial population here.
MaxTwoGenotypeSize == 3
\* The initial genotypes are 0..MaxInitialGenotype.
MaxInitialGenotype == 1

TwoGenotypeInit ==
  \E c \in ConfigInputs :
  \E initialPopulation \in UNION {[1 .. n -> 0 .. MaxInitialGenotype] :
                                    n \in 0 .. MaxTwoGenotypeSize} :
    /\ c.populationSize <= MaxTwoGenotypeSize
    /\ engine = IF constructorThrows(initialPopulation) THEN "EmptyPopulation"
                ELSE IF setConfigThrows(c) THEN "InvalidConfig"
                ELSE "Ready"
    /\ population = [index \in 1 .. Len(initialPopulation) |->
                       Unscored(initialPopulation[index])]
    /\ config = c
    /\ call = NoCall
    /\ second = NoCall
    /\ last = Settled([NoCall EXCEPT !.op = "constructor"],
                      IF engine = "Ready" THEN "resolved" ELSE engine,
                      <<>>, Given(initialPopulation))

\* The caller awaits each call and never overrides the configuration.
TwoGenotypeNext ==
  OverlapEvolveCall \/ EvolveResume \/ QueryCall \/ QueryResume \/ Await

TwoGenotypeSpec == TwoGenotypeInit /\ [][TwoGenotypeNext]_vars

\* ------------------------------------------------- the elitist engine
\* The tests appended to src/src/examples/weasel.ts (lines 95-262) are those
\* of an engine that takes an elitistRatio; its code is not among the
\* sources.  What elitistRatio does is taken from the specification: the
\* population ranked by fitness has its top fraction copied through
\* unchanged, exempt from competition, and the remainder is shuffled and
\* competes in pairs, of which a winner is retained and a loser's slot taken
\* by an offspring.  Which entries of the remainder are replaced is not
\* decided here: every remaining slot keeps its entry or takes an offspring.
\* populate, shufflePopulation, getRankedPopulation, the making of an
\* offspring and the queries are those of GeneticAlgorithm.ts above.

\* The largest populationSize and initial population of the elitist engine:
\* the smallest of which 0.4 is an entry.
MaxElitistSize == 3

\* The elitistRatio values of the tests, in hundredths: -1 (invalid), 0.4
\* and 1.0, and no elitism.
ElitistRatios == {-100, 0, 40, 100}

\* The options of the tests that configure an elitistRatio (weasel.ts lines
\* 175, 185 and 218).
ElitistOptions ==
  {Options(Null, FALSE, TRUE, FALSE),
   Options(Null, TRUE, TRUE, FALSE),
   Options(Number(0), FALSE, TRUE, FALSE)}

\* The configurations a caller passes to the elitist engine.
ElitistConfigInputs ==
  {[populationSize |-> size,
    elitistRatio |-> ratio,
    crossoverProbability |-> o.crossoverProbability,
    recalculateFitnessBeforeEachGeneration |-> o.recalculateFitnessBeforeEachGeneration,
    crossoverFunction |-> o.crossoverFunction,
    doesAbeatB |-> o.doesAbeatB] :
     size \in 0 .. MaxElitistSize, ratio \in ElitistRatios, o \in ElitistOptions}

\* setConfig throws "populationSize has to be greater than one." or
\* "elititstRatio has to be between 0.0 and 1.0." (weasel.ts lines 108-125).
elitistSetConfigThrows(c) ==
  c.populationSize < 2 \/ c.elitistRatio < 0 \/ c.elitistRatio > 100

\* An elite of which the last entry is left to compete.
elitistCountLessOne(ratio, length) ==
  IF (ratio * length) \div 100 > 0 THEN (ratio * length) \div 100 - 1 ELSE 0

\* The number of top entries that are exempt from competition: the ratio's
\* fraction of the ranked population, rounded down (0.4 of 5 is 2).
elitistCount(ratio, length) == (ratio * length) \div 100

\* What the remainder can become: each slot keeps its entry, or takes an
\* offspring of an entry of the remainder.
RECURSIVE elitistRemainder(_, _, _, _)
elitistRemainder(c, current, remainder, index) ==
  IF index > Len(remainder)
  THEN {<<>>}
  ELSE LET slot == {remainder[index]}
                     \cup {o.entry : o \in UNION {offspring(c, current, remainder[parent]) :
                                                    parent \in 1 .. Len(remainder)}}
       IN UNION {{<<entry>> \o rest : entry \in slot} :
                 rest \in elitistRemainder(c, current, remainder, index + 1)}

\* The next generations of the elitist engine, each with the population
\* ranked by fitness it was made from: the elite first, then what the
\* remainder, shuffled, becomes.
elitistCompete(c, current, rankedPopulation) ==
  LET sorted == rouletteSort(rankedPopulation)
      count == elitistCount(c.elitistRatio, Len(sorted))
      elite == SubSeq(sorted, 1, count)
      remainder == SubSeq(sorted, count + 1, Len(sorted))
  IN UNION {{[nextGeneration |-> elite \o competed, sorted |-> sorted] :
               competed \in elitistRemainder(c, current, shuffled, 1)} :
            shuffled \in shufflePopulation(remainder)}

\* new GeneticAlgorithm(config, initialPopulation) of the elitist engine.
ElitistInit ==
  \E c \in ElitistConfigInputs, initialPopulation \in InitialPopulations :
    /\ Len(initialPopulation) <= MaxElitistSize
    /\ engine = IF constructorThrows(initialPopulation) THEN "EmptyPopulation"
                ELSE IF elitistSetConfigThrows(c) THEN "InvalidConfig"
                ELSE "Ready"
    /\ population = [index \in 1 .. Len(initialPopulation) |->
                       Unscored(initialPopulation[index])]
    /\ config = c
    /\ call = NoCall
    /\ second = NoCall
    /\ last = Settled([NoCall EXCEPT !.op = "constructor"],
                      IF engine = "Ready" THEN "resolved" ELSE engine,
                      <<>>, Given(initialPopulation))

\* evolve(config?) of the elitist engine up to its await.
ElitistEvolveCall ==
  /\ engine = "Ready"
  /\ call.op = "none"
  /\ last.op = "none"
  /\ \E argument \in {Null} \cup {Given(c) : c \in ElitistConfigInputs} :
       LET given == argument # Null
           next == IF given THEN argument[1] ELSE config
           this == [NoCall EXCEPT !.op = "evolve", !.override = given,
                                  !.sizeBefore = Len(population),
                                  !.scoredBefore = Scored(population),
                                  !.before = BagOf(population)]
       IN IF given /\ elitistSetConfigThrows(argument[1])
          THEN /\ last' = Settled(this, "InvalidConfig", <<>>, Null)
               /\ UNCHANGED <<engine, second, population, config, call>>
          ELSE IF populateThrows(population, next)
          THEN /\ config' = next
               /\ last' = Settled(this, "TypeError", <<>>, Null)
               /\ UNCHANGED <<engine, second, population, call>>
          ELSE \E populated \in populate(population, next) :
               \E shuffled \in shufflePopulation(populated) :
                 /\ config' = next
                 /\ population' = shuffled
                 /\ call' = Started("evolve", given, population, populated, shuffled,
                                    evolveRecalculates(next))
                 /\ UNCHANGED <<engine, second, last>>

\* evolve of the elitist engine from its await on.  The settled call records,
\* as its value, the population ranked by fitness that compete was given.
ElitistEvolveResume ==
  /\ call.op = "evolve"
  /\ last.op = "none"
  /\ \E o \in fitnessOutcomes(call.hasNoFitness) :
       IF o.kind = "rejected"
       THEN /\ last' = Settled(call, "fitnessFunctionRejected", <<>>, Null)
            /\ UNCHANGED population
       ELSE IF o.kind = "returned" /\ countMismatch(o.fitness, call.hasNoFitness)
       THEN /\ last' = Settled(call, "FitnessCountMismatch", <<>>, Null)
            /\ UNCHANGED population
       ELSE \E g \in elitistCompete(config, mergedOf(call, o, population),
                                    rankedOf(call, o)) :
              /\ population' = g.nextGeneration
              /\ last' = Settled(call, "resolved", <<>>, Given(g.sorted))
  /\ call' = NoCall
  /\ UNCHANGED <<engine, second, config>>

ElitistNext ==
  ElitistEvolveCall \/ ElitistEvolveResume \/ QueryCall \/ QueryResume \/ Await

ElitistSpec == ElitistInit /\ [][ElitistNext]_vars

\* ------------------------------------------------------------------ claims

\* An evolve() has just resolved.
EvolveResolved == last.op = "evolve" /\ last.outcome = "resolved"

\* bestRanked() and the two methods that await it.
BestQueries == {"bestRanked", "best", "bestScore"}

\* The larger of two numbers.
Max(a, b) == IF a > b THEN a ELSE b

\* C1: after each evolve() that resolves, the population has exactly
\* config.populationSize entries, for every populationSize greater than one,
\* odd or even.
C1_PopulationSizeAfterEvolve ==
  (EvolveResolved /\ config.populationSize > 1)
    => Len(population) = config.populationSize

\* C2: while recalculateFitnessBeforeEachGeneration is false, every call of
\* fitnessFunction is given only entries without a fitness, every entry that
\* holds a fitness is left out of the call and kept, and, the function
\* returning numbers (no entry was evaluated to something that is no number),
\* no entry is given to it a second time.
C2_ScoredEntriesAreNotResubmitted ==
  (call.op # "none" /\ ~config.recalculateFitnessBeforeEachGeneration)
    => /\ \A i \in 1 .. Len(call.hasNoFitness) :
            call.hasNoFitness[i].fitness = Null
       /\ Len(call.hasFitness) = Scored(population)
       /\ BagOf(call.hasNoFitness) (+) BagOf(call.hasFitness) = BagOf(population)
       /\ (\A i \in 1 .. Len(population) :
             population[i].evaluated => IsNumber(population[i].fitness))
          => \A i \in 1 .. Len(call.hasNoFitness) :
               ~call.hasNoFitness[i].evaluated

\* C2's case: a call of fitnessFunction, under a configuration that does not
\* recalculate, on a population of which some entries hold a fitness from an
\* earlier evaluation and some do not.
C2_Witness ==
  /\ call.op # "none"
  /\ ~config.recalculateFitnessBeforeEachGeneration
  /\ Len(call.hasNoFitness) > 0
  /\ Len(call.hasFitness) > 0
  /\ \A i \in 1 .. Len(population) :
       population[i].evaluated => IsNumber(population[i].fitness)

\* An evolve() has just rejected because fitnessFunction returned an array of
\* the wrong length.
EvolveMismatch == last.op = "evolve" /\ last.outcome = "FitnessCountMismatch"

NeverEvaluated(entries) == \A e \in BagToSet(entries) : ~e.evaluated

C5_PopulationSizeAboveOne ==
  engine = "Ready" => config.populationSize > 1

\* C6: when evolve(override) resolves and the override's populationSize
\* differs from the length the population had, the population has the
\* override's populationSize, whether that is larger or smaller.
C6_OverrideSizeReached ==
  (/\ EvolveResolved
   /\ last.override
   /\ config.populationSize > 1
   /\ config.populationSize # last.sizeBefore)
    => Len(population) = config.populationSize

\* C7 as claimed: with recalculateFitnessBeforeEachGeneration true, every
\* rank call gives fitnessFunction all genotypes of the current population.
C7_EveryRankCallRecalculates ==
  (call.op # "none" /\ config.recalculateFitnessBeforeEachGeneration)
    => call.hasNoFitness = population /\ call.hasFitness = <<>>

\* C7 as amended: with recalculateFitnessBeforeEachGeneration true, the rank
\* call of evolve() gives fitnessFunction the whole replenished population,
\* cached or not, in one call, and an evolve() that resolves has made that
\* one call; the rank call of a query never recalculates: it gives
\* fitnessFunction the entries that hold no number, and only those.
C7_EvolveRecalculatesQueriesDoNot ==
  /\ (call.op = "evolve" /\ config.recalculateFitnessBeforeEachGeneration)
       => /\ call.hasNoFitness = population
          /\ call.hasFitness = <<>>
          /\ Len(population) = Max(call.sizeBefore, config.populationSize)
          /\ Len(population) > 0
  /\ (EvolveResolved /\ config.recalculateFitnessBeforeEachGeneration)
       => last.submitted = Number(Max(last.sizeBefore, config.populationSize))
  /\ call.op \in Queries
       => /\ ~call.recalculateFitness
          /\ Len(call.hasNoFitness) = Len(population) - Scored(population)
          /\ \A i \in 1 .. Len(call.hasNoFitness) :
               ~IsNumber(call.hasNoFitness[i].fitness)

\* C7's case: an evolve() under recalculation submits a population of which
\* entries hold a cached fitness.
C7_Witness ==
  /\ call.op = "evolve"
  /\ config.recalculateFitnessBeforeEachGeneration
  /\ Scored(population) > 0
  /\ call.hasNoFitness = population

\* C8, its first half: with crossoverProbability 0 and a crossoverFunction
\* configured, no evolve() invokes crossoverFunction, whatever Math.random()
\* returns.  (Its second half, that every evolve() invokes mutationFunction,
\* is C8_MutationAtZero.)
C8_NoCrossoverAtZero ==
  (/\ EvolveResolved
   /\ config.crossoverFunction
   /\ config.crossoverProbability = Number(0))
    => \A i \in 1 .. Len(last.pairs) : last.pairs[i].offspring # "crossover"

\* The number of mutationFunction calls of the evolve() that just resolved.
Mutations ==
  last.populateMutations
    + Len(SelectSeq(last.pairs, LAMBDA pair : pair.offspring = "mutation"))

\* C8, its second half: with crossoverProbability 0 and a crossoverFunction
\* configured, every evolve() invokes mutationFunction at least once.
C8_MutationAtZero ==
  (/\ EvolveResolved
   /\ config.crossoverFunction
   /\ config.crossoverProbability = Number(0))
    => Mutations >= 1

\* C9: with crossoverProbability 1 and a crossoverFunction configured, every
\* replacement compete makes is made by crossoverFunction, none by
\* mutationFunction, and populate calls mutationFunction once per entry the
\* population lacked: not at all when it had the target size.
C9_OnlyCrossoverAtOne ==
  (/\ EvolveResolved
   /\ config.crossoverFunction
   /\ config.crossoverProbability = Number(100))
    => /\ \A i \in 1 .. Len(last.pairs) :
            /\ last.pairs[i].offspring # "mutation"
            /\ last.pairs[i].beat <=> last.pairs[i].offspring = "crossover"
       /\ last.populateMutations
            = Max(last.sizeBefore, config.populationSize) - last.sizeBefore

\* C9's case: an evolve() at crossoverProbability 1, on a population of the
\* target size, replaces a competitor.
C9_Witness ==
  /\ EvolveResolved
  /\ config.crossoverFunction
  /\ config.crossoverProbability = Number(100)
  /\ last.sizeBefore = config.populationSize
  /\ \E i \in 1 .. Len(last.pairs) : last.pairs[i].offspring = "crossover"

\* C10: every pair competition is decided by doesAbeatB when it is
\* configured and by a.fitness > b.fitness otherwise; the phenotype is kept,
\* the competitor is replaced by an offspring exactly when the phenotype beat
\* it, and so under the default rule a pair of equal fitness is kept whole.
C10_ComparatorDecides ==
  EvolveResolved
    => /\ Len(population) = 2 * Len(last.pairs)
       /\ \A i \in 1 .. Len(last.pairs) :
            LET pair == last.pairs[i] IN
            /\ pair.by = IF config.doesAbeatB THEN "doesAbeatB" ELSE "default"
            /\ pair.by = "default"
                 => (pair.beat <=> ToNumber(pair.phenotype.fitness)
                                     > ToNumber(pair.competitor.fitness))
            /\ population[2 * i - 1] = pair.phenotype
            /\ pair.beat => population[2 * i] = Unscored(population[2 * i].genotype)
            /\ ~pair.beat => population[2 * i] = pair.competitor

\* C10's case: the default rule on a pair of equal numbers, both kept.
C10_Witness ==
  /\ EvolveResolved
  /\ ~config.doesAbeatB
  /\ \E i \in 1 .. Len(last.pairs) :
       /\ IsNumber(last.pairs[i].phenotype.fitness)
       /\ last.pairs[i].phenotype.fitness = last.pairs[i].competitor.fitness
       /\ population[2 * i - 1] = last.pairs[i].phenotype
       /\ population[2 * i] = last.pairs[i].competitor

\* C11: when no crossoverFunction is configured, whatever the
\* crossoverProbability, every offspring of an evolve() is made by
\* mutationFunction, one for each competitor that was beaten, no random value
\* is drawn for it and the absent crossoverFunction is never called.
C11_MutationWithoutCrossoverFunction ==
  (EvolveResolved /\ ~config.crossoverFunction)
    => \A i \in 1 .. Len(last.pairs) :
         /\ last.pairs[i].offspring \in {"mutation", "none"}
         /\ last.pairs[i].beat <=> last.pairs[i].offspring = "mutation"
         /\ last.pairs[i].random = Null

\* C11's case: an evolve() without crossoverFunction, at crossoverProbability
\* 1, replaces a competitor.
C11_Witness ==
  /\ EvolveResolved
  /\ ~config.crossoverFunction
  /\ config.crossoverProbability = Number(100)
  /\ \E i \in 1 .. Len(last.pairs) : last.pairs[i].offspring = "mutation"

\* C12: the constructor throws the empty-population error exactly when the
\* initial population is empty, whatever the configuration (also an invalid
\* one); when it succeeds, the population is the supplied genotypes in their
\* order, each with fitness null, and no callback has been invoked: nothing
\* was submitted to fitnessFunction, nothing mutated, no pair competed.
C12_Constructor ==
  last.op = "constructor"
    => /\ engine = "EmptyPopulation" <=> Len(last.value[1]) = 0
       /\ engine = "Ready"
            => /\ Len(population) = Len(last.value[1])
               /\ \A i \in 1 .. Len(population) :
                    population[i] = [genotype |-> last.value[1][i],
                                     fitness |-> Null, evaluated |-> FALSE]
       /\ call.op = "none"
       /\ last.submitted = Null
       /\ last.populateMutations = 0
       /\ last.pairs = <<>>

\* C12's case: the constructor is given an empty initial population together
\* with a configuration setConfig would reject.
C12_Witness ==
  /\ last.op = "constructor"
  /\ Len(last.value[1]) = 0
  /\ setConfigThrows(config)
  /\ engine = "EmptyPopulation"

\* C13: an evolve(override) that rejects with the invalid-configuration
\* error leaves the stored configuration, the population with its cached
\* fitness values and the engine as they were, and no call suspended: the
\* next evolve() runs under the previous configuration.
C13_InvalidOverrideChangesNothing ==
  [][(last'.op = "evolve" /\ last'.outcome = "InvalidConfig")
       => /\ config' = config
          /\ population' = population
          /\ engine' = engine
          /\ engine' = "Ready"
          /\ call' = NoCall
          /\ ~setConfigThrows(config')]_vars

\* C13's case: an invalid override has been rejected on an engine that holds
\* cached fitness values.
C13_Witness ==
  /\ last.op = "evolve"
  /\ last.outcome = "InvalidConfig"
  /\ last.override
  /\ Scored(population) > 0

\* The outcomes of a call whose fitnessFunction call failed.
FitnessFailures == {"fitnessFunctionRejected", "FitnessCountMismatch"}

\* C17: the merge of getRankedPopulation is all or nothing.  When the
\* fitnessFunction call rejects or returns an array of the wrong length, the
\* population is left as it was, no cached fitness changed.  When it
\* succeeds, every submitted entry has its fitness in the one array that
\* replaces the population (submitted entries first, cached ones after them,
\* unchanged): a query leaves that array as the population, evolve() hands it
\* to compete.
C17_MergeIsAllOrNothing ==
  [][(call.op # "none" /\ call'.op = "none")
       => LET submitted == Len(call.hasNoFitness)
              ranked(j) == IF j % 2 = 1
                           THEN last'.pairs[(j + 1) \div 2].phenotype
                           ELSE last'.pairs[j \div 2].competitor
              merged(entry, j) ==
                IF j <= submitted
                THEN entry.genotype = call.hasNoFitness[j].genotype /\ entry.evaluated
                ELSE entry = call.hasFitness[j - submitted]
          IN /\ last'.outcome \in FitnessFailures => population' = population
             /\ (call.op \in Queries /\ last'.outcome \notin FitnessFailures)
                  => IF submitted = 0
                     THEN population' = population
                     ELSE /\ Len(population') = Len(population)
                          /\ \A j \in 1 .. Len(population') :
                               merged(population'[j], j)
             /\ (call.op = "evolve" /\ last'.outcome = "resolved" /\ submitted > 0)
                  => \A j \in 1 .. 2 * Len(last'.pairs) : merged(ranked(j), j)]_vars

\* C17's case: a query whose fitnessFunction call returned an array of the
\* wrong length for several submitted entries, on a population that holds
\* cached fitness values as well.
C17_Witness ==
  /\ last.op \in Queries
  /\ last.outcome = "FitnessCountMismatch"
  /\ last.submitted # Null
  /\ ToNumber(last.submitted) > 1
  /\ Scored(population) > 0

\* C18 as claimed, under the default comparison: in every pair of different
\* fitness the loser is not carried over, its slot is filled by an offspring,
\* whichever of the two positions holds the winner.
C18_LoserAlwaysReplaced ==
  (EvolveResolved /\ ~config.doesAbeatB)
    => \A i \in 1 .. Len(last.pairs) :
         ToNumber(last.pairs[i].phenotype.fitness)
             # ToNumber(last.pairs[i].competitor.fitness)
           => last.pairs[i].offspring # "none"

\* C18 as amended: the entry at the first position of a pair is always
\* carried over with its cached fitness; the entry at the second position is
\* replaced by an offspring exactly when the first beats it, and is carried
\* over unchanged otherwise.  So the winner of a pair is always retained, and
\* the loser is replaced only when it holds the second position.
C18_SecondPositionReplacedWhenBeaten ==
  EvolveResolved
    => \A i \in 1 .. Len(last.pairs) :
         LET pair == last.pairs[i] IN
         /\ population[2 * i - 1] = pair.phenotype
         /\ pair.offspring \in {"mutation", "crossover"} <=> pair.beat
         /\ pair.offspring = "none" <=> population[2 * i] = pair.competitor
         /\ pair.beat => population[2 * i] # pair.competitor
         /\ (~config.doesAbeatB
               /\ ToNumber(pair.competitor.fitness) > ToNumber(pair.phenotype.fitness))
              => /\ population[2 * i] = pair.competitor
                 /\ pair.offspring = "none"

\* C18's case: under the default comparison the second entry of a pair is
\* the fitter one, and the pair is carried over whole.
C18_Witness ==
  /\ EvolveResolved
  /\ ~config.doesAbeatB
  /\ \E i \in 1 .. Len(last.pairs) :
       /\ ToNumber(last.pairs[i].competitor.fitness)
            > ToNumber(last.pairs[i].phenotype.fitness)
       /\ population[2 * i - 1] = last.pairs[i].phenotype
       /\ population[2 * i] = last.pairs[i].competitor

\* C19: every entry made by mutation or crossover is stored with fitness
\* null: the entries populate adds and the offspring compete pushes.  And
\* every entry that holds a fitness has been through fitnessFunction since it
\* was made.
C19_NewEntriesAreUnscored ==
  /\ \A i \in 1 .. Len(population) :
       IsNumber(population[i].fitness) => population[i].evaluated
  /\ call.op = "evolve"
       => LET added == BagOf(population) (-) call.before
          IN /\ BagCardinality(added) = call.populateMutations
             /\ \A e \in BagToSet(added) : e.fitness = Null /\ ~e.evaluated
  /\ EvolveResolved
       => \A i \in 1 .. Len(last.pairs) :
            last.pairs[i].offspring # "none"
              => population[2 * i].fitness = Null /\ ~population[2 * i].evaluated

\* C19's case: an evolve() resolved that had replenished the population and
\* replaced a competitor whose fitness was cached.
C19_Witness ==
  /\ EvolveResolved
  /\ last.populateMutations > 0
  /\ \E i \in 1 .. Len(last.pairs) :
       /\ last.pairs[i].offspring # "none"
       /\ IsNumber(last.pairs[i].competitor.fitness)
       /\ population[2 * i].fitness = Null

\* The number of entries a rank call finds in need of a fitness, from the
\* record of the call: the entries without a number before the call and those
\* populate added, or all of them under recalculation.
NeededFitness(c) ==
  IF c.recalculateFitness
  THEN c.sizeBefore + c.populateMutations
  ELSE c.sizeBefore - c.scoredBefore + c.populateMutations

\* C20: a rank call passes to fitnessFunction, in one call, the entries
\* without a number as fitness (all entries under recalculation) in their
\* population order, and makes no call, not one with an empty array, when
\* there is none.  The first evolve() on a one-genotype initial population
\* submits the whole replenished population.
C20_OneCallWithTheUnscored ==
  /\ call.op # "none"
       => /\ call.hasNoFitness
               = SelectSeq(population,
                           LAMBDA r : r.fitness = Null \/ call.recalculateFitness)
          /\ Len(call.hasNoFitness) = NeededFitness(call)
  /\ (last.op \in Queries \cup {"evolve"}
        /\ last.outcome \notin {"InvalidConfig", "TypeError"})
       => last.submitted = IF NeededFitness(last) = 0
                           THEN Null
                           ELSE Number(NeededFitness(last))
  /\ (EvolveResolved /\ last.sizeBefore = 1 /\ last.scoredBefore = 0)
       => last.submitted = Number(Max(1, config.populationSize))

\* C20's case: the first evolve() on a one-genotype initial population is at
\* its fitnessFunction call, with the replenished population.
C20_Witness ==
  /\ call.op = "evolve"
  /\ call.sizeBefore = 1
  /\ call.scoredBefore = 0
  /\ Len(call.hasNoFitness) = Len(population)
  /\ Len(population) > 2

\* C16: in the roulette engine, after every evolve() that resolves the
\* population has exactly populationSize entries, whether it had fewer, as
\* many or more before the call.
C16_RouletteReachesPopulationSize ==
  (last.op = "evolve" /\ last.outcome = "resolved")
    => Len(population) = config.populationSize

\* C16's case: an evolve() of the roulette engine resolved on a population
\* that had more entries than the populationSize it was called with, an odd
\* one, so that the loop pushed more than it keeps.
C16_Witness ==
  /\ last.op = "evolve"
  /\ last.outcome = "resolved"
  /\ last.sizeBefore > config.populationSize
  /\ config.populationSize % 2 = 1
  /\ Len(population) = config.populationSize

\* The call is suspended at a fitnessFunction call it has made.
AwaitsFitness(c) == c.op # "none" /\ Len(c.hasNoFitness) > 0

\* C14: there are never two fitnessFunction invocations of one engine in
\* flight: a call started while another is suspended at its fitnessFunction
\* call does not make a fitnessFunction call of its own.
C14_OneFitnessCallInFlight ==
  ~(AwaitsFitness(call) /\ AwaitsFitness(second))

\* The entries that have not been through fitnessFunction.
Unevaluated(entries) == SelectSeq(entries, LAMBDA ranked : ~ranked.evaluated)

RECURSIVE GenotypesOf(_)
GenotypesOf(entries) ==
  IF entries = <<>>
  THEN EmptyBag
  ELSE SetToBag({Head(entries).genotype}) (+) GenotypesOf(Tail(entries))

C22_CompeteOnPopulationSize ==
  /\ (EvolveResolved /\ config.populationSize > 1)
       => Len(last.ranked) = config.populationSize
  /\ call.op = "evolve"
       => /\ call.before \sqsubseteq BagOf(population)
          /\ \A entry \in BagToSet(BagOf(population) (-) call.before) :
               entry = Unscored(entry.genotype)

\* C23: an evolve() that resolves after starting with n entries under the
\* target populationSize t leaves exactly 2 * floor(max(n, t) / 2) entries:
\* populate fills up to max(n, t), getRankedPopulation keeps that length,
\* compete emits two entries for each disjoint consecutive pair of the
\* rankedPopulation and nothing for an unpaired last entry, and nothing else
\* removes an entry.
C23_TwoEntriesPerPair ==
  EvolveResolved
    => LET n == last.sizeBefore
           t == config.populationSize
       IN /\ last.sizeBefore + last.populateMutations = Max(n, t)
          /\ Len(last.ranked) = Max(n, t)
          /\ Len(last.pairs) = Max(n, t) \div 2
          /\ Len(population) = 2 * (Max(n, t) \div 2)
          /\ \A i \in 1 .. Len(last.pairs) :
               /\ last.pairs[i].phenotype = last.ranked[2 * i - 1]
               /\ last.pairs[i].competitor = last.ranked[2 * i]
               /\ population[2 * i - 1] = last.ranked[2 * i - 1]

\* C23's case: an evolve() resolved on a population of three entries, more
\* than its populationSize, and left two.
C23_Witness ==
  /\ EvolveResolved
  /\ last.sizeBefore = 3
  /\ config.populationSize = 2
  /\ Len(last.ranked) = 3
  /\ Len(population) = 2

\* The entries hold what a deterministic fitnessFunction gave them: here the
\* function that scores a genotype with its own number.
Deterministic(entries) ==
  \A i \in 1 .. Len(entries) : entries[i].fitness = Number(entries[i].genotype)

\* C24: under the default comparison and without recalculation, the fitness
\* function being deterministic, an entry that holds the greatest fitness of
\* the rankedPopulation of an evolve() is in the next generation, with its
\* genotype and its cached fitness (and so the best fitness never decreases
\* from one evolve() to the next).
C24_BestEntrySurvives ==
  (/\ EvolveResolved
   /\ ~config.doesAbeatB
   /\ ~config.recalculateFitnessBeforeEachGeneration
   /\ config.populationSize > 1
   /\ Deterministic(last.ranked))
    => \E i \in 1 .. Len(population) :
         /\ \E j \in 1 .. Len(last.ranked) : population[i] = last.ranked[j]
         /\ \A j \in 1 .. Len(last.ranked) :
              population[i].fitness[1] >= last.ranked[j].fitness[1]

\* C25: a query and an evolve() were both suspended at their fitnessFunction
\* calls and the evolve() resumed first: its compete assigned the next
\* generation.  When the query then resumes, the population is still that
\* next generation (the other order is the evolve() resuming last, which
\* assigns the next generation as its final step).  Stated for the
\* configurations with a populationSize above one.
C25_QueryKeepsNextGeneration ==
  [][/\ (/\ second.op \in Queries
         /\ config.populationSize > 1
         /\ second.competed # Null
         /\ population = second.competed[1]
         /\ call.op = "none"
         /\ second'.op = "none")
          => population' = second.competed[1]
     /\ (/\ call.op \in Queries
         /\ config.populationSize > 1
         /\ call.competed # Null
         /\ population = call.competed[1]
         /\ second.op = "none"
         /\ call'.op = "none")
          => population' = call.competed[1]]_vars

\* C26: a query (bestRanked, best, bestScore, meanFitness) that runs to its
\* end without another call in between leaves the configuration, the length
\* of the population and its genotypes as a multiset as they were, and every
\* entry that held a number is still there with that number: all it does to
\* the engine is store a fitness with the entries that had none, which moves
\* them to the front; when its fitnessFunction call fails it changes nothing.
\* getPopulation() returns the genotypes in population order, changes
\* nothing and calls no callback.
C26_QueriesOnlyFillInFitness ==
  [][/\ (call.op = "none" /\ call'.op \in Queries)
          => /\ population' = population
             /\ config' = config
             /\ engine' = engine
     /\ (call.op \in Queries /\ call'.op = "none")
          => LET cached == SelectSeq(population, LAMBDA r : IsNumber(r.fitness))
                 missing == SelectSeq(population, LAMBDA r : ~IsNumber(r.fitness))
             IN /\ config' = config
                /\ engine' = engine
                /\ Len(population') = Len(population)
                /\ GenotypesOf(population') = GenotypesOf(population)
                /\ BagOf(cached) \sqsubseteq BagOf(population')
                /\ last'.pairs = <<>>
                /\ last'.populateMutations = 0
                /\ last'.outcome \in FitnessFailures => population' = population
                /\ last'.outcome \notin FitnessFailures
                     => /\ SubSeq(population', Len(missing) + 1, Len(population')) = cached
                        /\ genotypesOf(SubSeq(population', 1, Len(missing)))
                             = genotypesOf(missing)
     /\ last'.op = "getPopulation"
          => /\ population' = population
             /\ config' = config
             /\ engine' = engine
             /\ call' = call
             /\ last'.value = Given(genotypesOf(population))
             /\ last'.submitted = Null
             /\ last'.populateMutations = 0
             /\ last'.pairs = <<>>]_vars

\* C26's case: a query resolved that had entries scored in a population
\* holding cached fitness values, behind entries without one.
C26_Witness ==
  /\ last.op \in Queries
  /\ last.outcome = "resolved"
  /\ last.submitted # Null
  /\ last.scoredBefore > 0
  /\ last.scoredBefore < Len(population)
  /\ Scored(population) = Len(population)

\* C27: when an entry holds a number after the ranking, bestRanked()
\* resolves, to an entry of the population whose fitness is greater than or
\* equal to that of every entry that holds a number; best() resolves to the
\* genotype of such an entry and bestScore() to its fitness, whether a
\* doesAbeatB is configured or not: the comparator is not consulted.
C27_BestIsNumericallyGreatest ==
  (last.op \in BestQueries /\ last.outcome \in {"resolved", "NoScoredGenotypes"})
    => /\ Scored(population) > 0 => last.outcome = "resolved"
       /\ last.pairs = <<>>
       /\ last.outcome = "resolved"
            => \E i \in 1 .. Len(population) :
                 /\ IsNumber(population[i].fitness)
                 /\ \A j \in 1 .. Len(population) :
                      IsNumber(population[j].fitness)
                        => population[i].fitness[1] >= population[j].fitness[1]
                 /\ last.op = "bestRanked"
                      => last.value = [genotype |-> population[i].genotype,
                                       fitness |-> population[i].fitness[1]]
                 /\ last.op = "best" => last.value = population[i].genotype
                 /\ last.op = "bestScore" => last.value = population[i].fitness[1]

\* C27's case: with a doesAbeatB configured, bestRanked() resolved to an
\* entry that is not the first of the population and differs from the first
\* in genotype and in fitness.
C27_Witness ==
  /\ last.op = "bestRanked"
  /\ last.outcome = "resolved"
  /\ config.doesAbeatB
  /\ Len(population) > 1
  /\ IsNumber(population[1].fitness)
  /\ last.value.fitness > population[1].fitness[1]
  /\ last.value.genotype # population[1].genotype

====
